---- MODULE Spec2Model ----
(***************************************************************************)
(* Discount resolution and pricing engine (services/discountService), the  *)
(* Discount model's pre-save hook and the discount controller's mutations. *)
(*                                                                         *)
(* Dates are integers (instants of a discrete clock).  Money is an integer *)
(* number of thousandths of the currency unit, so that a price with three  *)
(* decimals and the rounding to two decimals can both be represented.      *)
(***************************************************************************)
EXTENDS Integers, Sequences, FiniteSets, TLC

VARIABLES
    discounts,  \* the Discount collection, in natural (insertion) order
    now,        \* the wall clock read by `new Date()`
    nextId,     \* the next fresh _id of a Discount document
    result,     \* the value returned by the last service call
    carts,      \* the Cart collection
    inflight,   \* the cart and listing requests in progress, by slot
    session     \* req.user and the position of the discount route request

vars == <<discounts, now, nextId, result, carts, inflight, session>>

-----------------------------------------------------------------------------
(* Bounds of the model *)

\* number of discounts ever created (ids are never reused)
MaxDiscounts == 2

\* last instant of the clock
MaxTime == 1

Instants == 0..MaxTime

\* number of requests the server handles at the same time
MaxRequests == 2

Slots == 1..MaxRequests

\* a slot no request occupies
Free == [pc |-> "free"]

\* no discount route request is being handled
NoSession == [stage |-> "none"]

-----------------------------------------------------------------------------
(* Collaborators: the Product and User collections read by the engine *)

Undefined == "undefined"

\* userId = null (the default of every service method)
NoUser == "null"

ProductStore ==
    ("p1" :> [_id |-> "p1", category |-> "shoes", price |-> 100000, stock |-> 2]) @@
    ("p2" :> [_id |-> "p2", category |-> "hats", price |-> 19995, stock |-> 2]) @@
    ("p3" :> [_id |-> "p3", category |-> "hats", price |-> 2675, stock |-> 2])

\* "p9" is an id no product has
ProductIdInputs == {"p1", "p2", "p9"}

UserStore ==
    ("u1" :> [_id |-> "u1", userGroup |-> "vip"]) @@
    ("u2" :> [_id |-> "u2", userGroup |-> "regular"]) @@
    ("u3" :> [_id |-> "u3", userGroup |-> ""]) @@
    ("u4" :> [_id |-> "u4", userGroup |-> "admin"])

\* "u9" is an id no user has
UserIdInputs == {NoUser, "u1", "u2", "u3", "u9"}

Types == {"product", "category", "userGroup", "general"}

\* lists of already fetched products handed to applyBulkDiscounts
BulkInputs ==
    { <<>>, <<ProductStore["p1"]>>, <<ProductStore["p2"]>>,
      <<ProductStore["p1"], ProductStore["p2"]>>,
      <<ProductStore["p2"], ProductStore["p1"]>> }

-----------------------------------------------------------------------------
(* The Discount schema *)

\* schema validators: percentage min 0 / max 100, type enum
validate(d) ==
    /\ d.percentage >= 0
    /\ d.percentage <= 100
    /\ d.type \in Types

\* discountSchema.pre('save'): active is recomputed from the window
preSave(d, t) ==
    [d EXCEPT !.active = (d.startDate <= t /\ d.endDate >= t)]

\* the documents of the collection with the given _id (at most one)
findById(id) ==
    { i \in 1..Len(discounts) : discounts[i]._id = id }

-----------------------------------------------------------------------------
(* Query helpers *)

\* the three fixed $or branches of getApplicableDiscounts
scopeBranches(d, productId, product) ==
    \/ productId \in d.products
    \/ (d.type = "category" /\ product.category \in d.categories)
    \/ d.type = "general"

\* the group pushed into $or: user && user.userGroup, else nothing
resolveUserGroup(userId) ==
    IF userId # NoUser /\ userId \in DOMAIN UserStore /\ UserStore[userId].userGroup # ""
    THEN UserStore[userId].userGroup
    ELSE Undefined

\* the $or branch {type: 'userGroup', userGroup: user.userGroup}
userGroupBranch(d, group) ==
    /\ group # Undefined
    /\ d.type = "userGroup"
    /\ d.userGroup = group

\* all orders in which a cursor may return the documents at indices I
Orders(I) ==
    { s \in [1..Cardinality(I) -> I] : \A a, b \in 1..Cardinality(I) : a # b => s[a] # s[b] }

\* Discount.find(q): the matching documents, in an order the store chooses
find(I) ==
    { [k \in 1..Cardinality(I) |-> discounts[s[k]]] : s \in Orders(I) }

\* .sort({percentage: -1}): descending percentage, ties in any order
sortByPercentageDesc(S) ==
    { s \in S : \A a, b \in 1..Len(s) : a < b => s[a].percentage >= s[b].percentage }

-----------------------------------------------------------------------------
(* Price arithmetic *)

\* Math.round(price * multiplier * 100) / 100: Math.round takes a half up.  On
\* the prices of ProductStore and the percentages 0, 10, 20, 50 and 100 the
\* binary64 product rounds as the exact product does.
discountedPriceOf(price, percentage) ==
    ((price * (100 - percentage) + 500) \div 1000) * 10

\* <<price, discountedPrice>> of the model whose difference ends in half a cent
\* and whose binary64 difference lies nearer to zero than that half: toFixed(2)
\* rounds the binary64 value, so it drops the half cent
toFixedBelowHalf ==
    { <<19995, 20000>>, <<2675, 2410>>, <<2675, 2140>>, <<2675, 1340>>, <<2675, 0>> }

\* parseFloat((price - discountedPrice).toFixed(2)): toFixed rounds the
\* magnitude to the nearest cent, a half away from zero, and keeps the sign
savedAmountOf(price, discountedPrice) ==
    LET diff == price - discountedPrice
        magnitude == IF diff < 0 THEN 0 - diff ELSE diff
        cents == IF <<price, discountedPrice>> \in toFixedBelowHalf
                 THEN (magnitude + 5) \div 10 - 1
                 ELSE (magnitude + 5) \div 10
    IN IF diff < 0 THEN 0 - cents * 10 ELSE cents * 10

Null == [null |-> TRUE]


\* the empty pricing-less answer of a call that threw
NotFound == "Product not found"

-----------------------------------------------------------------------------
(* DiscountService: single-product path *)

\* variant: the filter trusts the stored active flag and drops the two date tests
getApplicableDiscountsQueryNoDates(d, productId, userId) ==
    /\ \/ scopeBranches(d, productId, ProductStore[productId])
       \/ userGroupBranch(d, resolveUserGroup(userId))
    /\ d.active = TRUE

\* variant: the user-group branch is assigned to $or instead of pushed onto it
getApplicableDiscountsQueryAssigned(d, productId, userId) ==
    /\ IF resolveUserGroup(userId) # Undefined
       THEN userGroupBranch(d, resolveUserGroup(userId))
       ELSE scopeBranches(d, productId, ProductStore[productId])
    /\ d.startDate <= now
    /\ d.endDate >= now
    /\ d.active = TRUE

\* the filter object built by getApplicableDiscounts
getApplicableDiscountsQuery(d, productId, userId) ==
    /\ \/ scopeBranches(d, productId, ProductStore[productId])
       \/ userGroupBranch(d, resolveUserGroup(userId))
    /\ d.startDate <= now
    /\ d.endDate >= now
    /\ d.active = TRUE

\* every list getApplicableDiscounts may return for an existing product
getApplicableDiscountsResults(productId, userId) ==
    sortByPercentageDesc(
        find({ i \in 1..Len(discounts) :
                 getApplicableDiscountsQuery(discounts[i], productId, userId) }))

\* discounts[0] || null
headOrNull(list) ==
    IF Len(list) = 0 THEN Null ELSE list[1]

\* the pricing object returned by calculateProductDiscount
priceSingle(product, bestDiscount) ==
    IF bestDiscount = Null
    THEN [originalPrice |-> product.price,
          discountedPrice |-> product.price,
          hasDiscount |-> FALSE]
    ELSE LET discountedPrice == discountedPriceOf(product.price, bestDiscount.percentage)
         IN [originalPrice |-> product.price,
             discountedPrice |-> discountedPrice,
             discountPercentage |-> bestDiscount.percentage,
             discount |-> bestDiscount,
             hasDiscount |-> TRUE,
             savedAmount |-> savedAmountOf(product.price, discountedPrice),
             discountType |-> bestDiscount.type]

\* variant: a missing product yields an empty list instead of the error
getApplicableDiscountsEmptyOnMissing(productId, userId) ==
    /\ result.op = "idle"
    /\ IF productId \notin DOMAIN ProductStore
       THEN result' = [op |-> "getApplicableDiscounts", productId |-> productId,
                       userId |-> userId, error |-> "", out |-> <<>>]
       ELSE \E list \in getApplicableDiscountsResults(productId, userId) :
               result' = [op |-> "getApplicableDiscounts", productId |-> productId,
                          userId |-> userId, error |-> "", out |-> list]
    /\ UNCHANGED <<discounts, now, nextId, carts, inflight, session>>

getApplicableDiscounts(productId, userId) ==
    /\ result.op = "idle"
    /\ IF productId \notin DOMAIN ProductStore
       THEN result' = [op |-> "getApplicableDiscounts", productId |-> productId,
                       userId |-> userId, error |-> NotFound]
       ELSE \E list \in getApplicableDiscountsResults(productId, userId) :
               result' = [op |-> "getApplicableDiscounts", productId |-> productId,
                          userId |-> userId, error |-> "", out |-> list]
    /\ UNCHANGED <<discounts, now, nextId, carts, inflight, session>>

calculateBestDiscount(productId, userId) ==
    /\ result.op = "idle"
    /\ IF productId \notin DOMAIN ProductStore
       THEN result' = [op |-> "calculateBestDiscount", productId |-> productId,
                       userId |-> userId, error |-> NotFound]
       ELSE \E list \in getApplicableDiscountsResults(productId, userId) :
               result' = [op |-> "calculateBestDiscount", productId |-> productId,
                          userId |-> userId, error |-> "", out |-> headOrNull(list)]
    /\ UNCHANGED <<discounts, now, nextId, carts, inflight, session>>

\* variant: the call also writes the recomputed active flags back to the store
calculateProductDiscountPersisting(productId, userId) ==
    /\ result.op = "idle"
    /\ IF productId \notin DOMAIN ProductStore
       THEN result' = [op |-> "calculateProductDiscount", productId |-> productId,
                       userId |-> userId, error |-> NotFound]
       ELSE \E list \in getApplicableDiscountsResults(productId, userId) :
               result' = [op |-> "calculateProductDiscount", productId |-> productId,
                          userId |-> userId, error |-> "",
                          out |-> priceSingle(ProductStore[productId], headOrNull(list))]
    /\ discounts' = [i \in DOMAIN discounts |-> preSave(discounts[i], now)]
    /\ UNCHANGED <<now, nextId, carts, inflight, session>>

calculateProductDiscount(productId, userId) ==
    /\ result.op = "idle"
    /\ IF productId \notin DOMAIN ProductStore
       THEN result' = [op |-> "calculateProductDiscount", productId |-> productId,
                       userId |-> userId, error |-> NotFound]
       ELSE \E list \in getApplicableDiscountsResults(productId, userId) :
               result' = [op |-> "calculateProductDiscount", productId |-> productId,
                          userId |-> userId, error |-> "",
                          out |-> priceSingle(ProductStore[productId], headOrNull(list))]
    /\ UNCHANGED <<discounts, now, nextId, carts, inflight, session>>


-----------------------------------------------------------------------------
(* DiscountService: bulk path *)

\* the first Discount.find of applyBulkDiscounts
bulkPoolQuery(d, products) ==
    /\ \/ d.products \cap { products[k]._id : k \in 1..Len(products) } # {}
       \/ (d.type = "category" /\
             d.categories \cap { products[k].category : k \in 1..Len(products) } # {})
       \/ d.type = "general"
    /\ d.startDate <= now
    /\ d.endDate >= now
    /\ d.active = TRUE

\* the second Discount.find, with the instant the call captured at its start
bulkUserGroupQueryAt(d, userId, t) ==
    /\ userId # NoUser
    /\ userId \in DOMAIN UserStore
    /\ UserStore[userId].userGroup # ""
    /\ d.type = "userGroup"
    /\ d.userGroup = UserStore[userId].userGroup
    /\ d.startDate <= t
    /\ d.endDate >= t
    /\ d.active = TRUE

\* the second Discount.find, issued when userId resolves to a user with a group
bulkUserGroupQuery(d, userId) ==
    bulkUserGroupQueryAt(d, userId, now)

\* every value combinedDiscounts may take: [...allDiscounts, ...userGroupDiscounts]
combinedDiscounts(products, userId) ==
    { allDiscounts \o userGroupDiscounts :
        allDiscounts \in find({ i \in 1..Len(discounts) :
                                  bulkPoolQuery(discounts[i], products) }),
        userGroupDiscounts \in find({ i \in 1..Len(discounts) :
                                  bulkUserGroupQuery(discounts[i], userId) }) }

\* variant: the products list is matched whatever the type of the discount
bulkFilterUntypedProducts(d, product, userId) ==
    \/ d.type = "general"
    \/ (d.type = "category" /\ product.category \in d.categories)
    \/ product._id \in d.products
    \/ (d.type = "userGroup" /\ userId # NoUser)

\* the per-product filter over the combined pool
bulkFilter(d, product, userId) ==
    \/ d.type = "general"
    \/ (d.type = "category" /\ product.category \in d.categories)
    \/ (d.type = "product" /\ product._id \in d.products)
    \/ (d.type = "userGroup" /\ userId # NoUser)

\* combinedDiscounts.filter(...) for one product
productDiscounts(pool, product, userId) ==
    SelectSeq(pool, LAMBDA d : bulkFilter(d, product, userId))

\* variant: the comparison of the reducer is turned around
reduceMaxFlipped(list) ==
    LET acc[k \in 1..Len(list)] ==
            IF k = 1 THEN list[1]
            ELSE IF list[k].percentage < acc[k - 1].percentage THEN list[k]
                 ELSE acc[k - 1]
    IN acc[Len(list)]

\* list.reduce((max, d) => d.percentage > max.percentage ? d : max)
reduceMax(list) ==
    LET acc[k \in 1..Len(list)] ==
            IF k = 1 THEN list[1]
            ELSE IF list[k].percentage > acc[k - 1].percentage THEN list[k]
                 ELSE acc[k - 1]
    IN acc[Len(list)]

\* productDiscounts.length ? reduce(...) : null
bulkBest(list) ==
    IF Len(list) = 0 THEN Null ELSE reduceMax(list)

\* the object returned for one product by applyBulkDiscounts: {...product, pricing}
priceBulk(product, bestDiscount) ==
    IF bestDiscount = Null
    THEN [originalPrice |-> product.price,
          discountedPrice |-> product.price,
          hasDiscount |-> FALSE] @@ product
    ELSE LET discountedPrice == discountedPriceOf(product.price, bestDiscount.percentage)
         IN [originalPrice |-> product.price,
             discountedPrice |-> discountedPrice,
             discountPercentage |-> bestDiscount.percentage,
             discount |-> bestDiscount,
             hasDiscount |-> TRUE,
             savedAmount |-> savedAmountOf(product.price, discountedPrice),
             discountType |-> bestDiscount.type] @@ product

\* variant: the entries are collected last product first
bulkMapReversed(pool, products, userId) ==
    [k \in 1..Len(products) |->
        priceBulk(products[Len(products) + 1 - k],
                  bulkBest(productDiscounts(pool, products[Len(products) + 1 - k], userId)))]

\* products.map(product => ...) over one pool
bulkMap(pool, products, userId) ==
    [k \in 1..Len(products) |->
        priceBulk(products[k], bulkBest(productDiscounts(pool, products[k], userId)))]

\* the awaited store call of a run that rejects, if any: the first
\* Discount.find, User.findById or the second Discount.find
NoFault == "none"

StoreFaults == {NoFault, "pool", "user", "userGroup"}

StoreError == "store error"

\* variant: the scope query is issued once per product inside the map
bulkCallsPerProduct(products, userId, rejects) ==
    [k \in 1..Len(products) |-> "Discount.find scope"] \o
    (IF userId = NoUser THEN <<>>
     ELSE IF rejects = "user" \/ resolveUserGroup(userId) = Undefined
     THEN <<"User.findById">>
     ELSE <<"User.findById", "Discount.find userGroup">>)

\* the store calls one run issues, in order, up to the one that rejects
bulkCalls(products, userId, rejects) ==
    IF rejects = "pool" THEN <<"Discount.find scope">>
    ELSE IF userId = NoUser THEN <<"Discount.find scope">>
    ELSE IF rejects = "user" \/ resolveUserGroup(userId) = Undefined
    THEN <<"Discount.find scope", "User.findById">>
    ELSE <<"Discount.find scope", "User.findById", "Discount.find userGroup">>

\* a rejected await is not caught: the promise of the run rejects
bulkRejected(userId, rejects) ==
    \/ rejects = "pool"
    \/ (rejects = "user" /\ userId # NoUser)
    \/ (rejects = "userGroup" /\ resolveUserGroup(userId) # Undefined)

\* one run of applyBulkDiscounts, given the store call that rejects
applyBulkDiscountsRun(products, userId, rejects) ==
    /\ result.op = "idle"
    /\ IF bulkRejected(userId, rejects)
       THEN result' = [op |-> "applyBulkDiscounts", products |-> products,
                       userId |-> userId, error |-> StoreError,
                       rejected |-> rejects,
                       calls |-> bulkCalls(products, userId, rejects)]
       ELSE \E pool \in combinedDiscounts(products, userId) :
               result' = [op |-> "applyBulkDiscounts", products |-> products,
                          userId |-> userId, error |-> "",
                          calls |-> bulkCalls(products, userId, rejects),
                          out |-> bulkMap(pool, products, userId)]
    /\ UNCHANGED <<discounts, now, nextId, carts, inflight, session>>

\* a run in which every store call resolves
applyBulkDiscounts(products, userId) ==
    applyBulkDiscountsRun(products, userId, NoFault)

\* applyBulkDiscounts up to its first await: now is captured and the scope
\* query is issued; without a userId the map follows at once
bulkFind(r, products, userId) ==
    /\ inflight[r] = Free
    /\ \E allDiscounts \in find({ i \in 1..Len(discounts) :
                                    bulkPoolQuery(discounts[i], products) }) :
          inflight' = [inflight EXCEPT ![r] =
              IF userId = NoUser
              THEN [pc |-> "done", handler |-> "applyBulkDiscounts",
                    products |-> products, userId |-> userId, now |-> now,
                    pool |-> allDiscounts,
                    out |-> bulkMap(allDiscounts, products, userId)]
              ELSE [pc |-> "findUserGroup", handler |-> "applyBulkDiscounts",
                    products |-> products, userId |-> userId, now |-> now,
                    allDiscounts |-> allDiscounts]]
    /\ UNCHANGED <<discounts, now, nextId, result, carts, session>>

\* applyBulkDiscounts after its first await: User.findById, the userGroup query
\* with the captured now, then the synchronous map over the combined pool
bulkFindUserGroup(r) ==
    /\ inflight[r].pc = "findUserGroup"
    /\ LET call == inflight[r]
       IN \E userGroupDiscounts \in
                find({ i \in 1..Len(discounts) :
                         bulkUserGroupQueryAt(discounts[i], call.userId, call.now) }) :
             inflight' = [inflight EXCEPT ![r] =
                 [pc |-> "done", handler |-> "applyBulkDiscounts",
                  products |-> call.products, userId |-> call.userId, now |-> call.now,
                  pool |-> call.allDiscounts \o userGroupDiscounts,
                  out |-> bulkMap(call.allDiscounts \o userGroupDiscounts,
                                  call.products, call.userId)]]
    /\ UNCHANGED <<discounts, now, nextId, result, carts, session>>

\* the answer of the request in slot r has been sent
finish(r) ==
    /\ inflight[r].pc = "done"
    /\ inflight' = [inflight EXCEPT ![r] = Free]
    /\ UNCHANGED <<discounts, now, nextId, result, carts, session>>

-----------------------------------------------------------------------------
(* Discount mutations: DiscountService.createDiscount / updateDiscount and   *)
(* DiscountController.deleteDiscount                                         *)

\* new Discount(discountData); discount.save()
createDiscount(discountData) ==
    /\ result.op = "idle"
    /\ nextId <= MaxDiscounts
    /\ IF validate(discountData)
       THEN LET discount == preSave([_id |-> nextId] @@ discountData, now)
            IN /\ discounts' = Append(discounts, discount)
               /\ nextId' = nextId + 1
               /\ result' = [op |-> "createDiscount", error |-> "", out |-> discount]
       ELSE /\ result' = [op |-> "createDiscount", error |-> "validation"]
            /\ UNCHANGED <<discounts, nextId>>
    /\ UNCHANGED <<now, carts, inflight, session>>

\* the document after findByIdAndUpdate applied updateData ($set of its fields)
applyUpdate(d, updateData) ==
    [f \in DOMAIN d |-> IF f \in DOMAIN updateData THEN updateData[f] ELSE d[f]]

\* Discount.findByIdAndUpdate(discountId, updateData, {new: true, runValidators: true})
updateDiscount(discountId, updateData) ==
    /\ result.op = "idle"
    /\ IF findById(discountId) = {}
       THEN /\ result' = [op |-> "updateDiscount", error |-> "", out |-> Null]
            /\ UNCHANGED discounts
       ELSE LET i == CHOOSE i \in findById(discountId) : TRUE
                updated == applyUpdate(discounts[i], updateData)
            IN IF validate(updated)
               THEN /\ discounts' = [discounts EXCEPT ![i] = updated]
                    /\ result' = [op |-> "updateDiscount", error |-> "", out |-> updated]
               ELSE /\ result' = [op |-> "updateDiscount", error |-> "validation"]
                    /\ UNCHANGED discounts
    /\ UNCHANGED <<now, nextId, carts, inflight, session>>

\* Discount.findByIdAndDelete(req.params.id)
deleteDiscount(discountId) ==
    /\ result.op = "idle"
    /\ IF findById(discountId) = {}
       THEN /\ result' = [op |-> "deleteDiscount", error |-> "Discount not found"]
            /\ UNCHANGED discounts
       ELSE LET i == CHOOSE i \in findById(discountId) : TRUE
            IN /\ discounts' = [k \in 1..(Len(discounts) - 1) |->
                                   IF k < i THEN discounts[k] ELSE discounts[k + 1]]
               /\ result' = [op |-> "deleteDiscount", error |-> ""]
    /\ UNCHANGED <<now, nextId, carts, inflight, session>>

\* the response is sent: res.json(...), and the request is over
respond ==
    /\ result.op # "idle"
    /\ result' = [op |-> "idle"]
    /\ session' = NoSession
    /\ UNCHANGED <<discounts, now, nextId, carts, inflight>>

-----------------------------------------------------------------------------
(* The discount management routes: verifyToken, adminMiddleware, controller *)

\* no accessToken cookie and no Authorization header
NoToken == "none"

\* a token whose signature jwt.verify rejects
ForgedToken == "forged"

\* a valid token is written as the userId it decodes to; "u9" is a deleted user
TokenInputs == {NoToken, ForgedToken, "u2", "u4", "u9"}

DiscountRoutes == {"POST /", "PUT /:id", "DELETE /:id"}

\* authController.verifyToken: 401 without a token, with a forged token or
\* for an unknown user; otherwise req.user is set and next() is called
verifyToken(route, token) ==
    /\ result.op = "idle"
    /\ session = NoSession
    /\ IF token \in {NoToken, ForgedToken} \/ token \notin DOMAIN UserStore
       THEN /\ result' = [op |-> route, status |-> 401, token |-> token]
            /\ UNCHANGED session
       ELSE /\ session' = [stage |-> "verified", route |-> route, user |-> UserStore[token]]
            /\ UNCHANGED result
    /\ UNCHANGED <<discounts, now, nextId, carts, inflight>>

\* variant: every authenticated user passes
adminMiddlewareAnyUser ==
    /\ result.op = "idle"
    /\ session.stage = "verified"
    /\ session' = [session EXCEPT !.stage = "admin"]
    /\ UNCHANGED <<discounts, now, nextId, result, carts, inflight>>

\* middleware/admin: next() when req.user.userGroup === 'admin', else 403
adminMiddleware ==
    /\ result.op = "idle"
    /\ session.stage = "verified"
    /\ IF session.user.userGroup = "admin"
       THEN /\ session' = [session EXCEPT !.stage = "admin"]
            /\ UNCHANGED result
       ELSE /\ result' = [op |-> session.route, status |-> 403,
                          error |-> "Forbidden: Admin rights required"]
            /\ UNCHANGED session
    /\ UNCHANGED <<discounts, now, nextId, carts, inflight>>

\* DiscountController.createDiscount: DiscountService.createDiscount(req.body)
DiscountController_createDiscount(discountData) ==
    /\ session.stage = "admin"
    /\ session.route = "POST /"
    /\ createDiscount(discountData)

\* DiscountController.updateDiscount: DiscountService.updateDiscount(req.params.id, req.body)
DiscountController_updateDiscount(discountId, updateData) ==
    /\ session.stage = "admin"
    /\ session.route = "PUT /:id"
    /\ updateDiscount(discountId, updateData)

\* DiscountController.deleteDiscount: Discount.findByIdAndDelete(req.params.id)
DiscountController_deleteDiscount(discountId) ==
    /\ session.stage = "admin"
    /\ session.route = "DELETE /:id"
    /\ deleteDiscount(discountId)

\* time passes between two requests
tick ==
    /\ result.op = "idle"
    /\ now < MaxTime
    /\ now' = now + 1
    /\ UNCHANGED <<discounts, nextId, result, carts, inflight, session>>

-----------------------------------------------------------------------------
(* CartController: the Cart collection and the cart requests, each split at  *)
(* its awaits so that requests interleave                                    *)

\* the value of a sum over items that carry no price: undefined * quantity.
\* Real totals are whole cents, so -1 thousandth stands for NaN
NaN == -1

\* Cart.findOne({user: userId}): the position of the user's cart, 0 for null
findOne(userId) ==
    IF \E i \in 1..Len(carts) : carts[i].user = userId
    THEN CHOOSE i \in 1..Len(carts) :
             /\ carts[i].user = userId
             /\ \A j \in 1..(i - 1) : carts[j].user # userId
    ELSE 0

\* cart.items.findIndex(item => item.product.equals(productId)), -1 when absent
findIndex(items, productId) ==
    IF \E k \in 1..Len(items) : items[k].product = productId
    THEN CHOOSE k \in 1..Len(items) :
             /\ items[k].product = productId
             /\ \A j \in 1..(k - 1) : items[j].product # productId
    ELSE -1

\* cart.items.findIndex(i => i._id.equals(itemId)), -1 when absent
findIndexById(items, itemId) ==
    IF \E k \in 1..Len(items) : items[k]._id = itemId
    THEN CHOOSE k \in 1..Len(items) : items[k]._id = itemId
    ELSE -1

\* cartItemSchema: quantity has min 1
validateItem(quantity) == quantity >= 1

\* the sum of f over the items of a list
RECURSIVE sumOver(_, _)
sumOver(items, field) ==
    IF Len(items) = 0 THEN 0
    ELSE (IF field = "quantity" THEN items[1].quantity
          ELSE IF field = "originalPrice" THEN items[1].originalPrice * items[1].quantity
          ELSE (IF items[1].discountedPrice # 0 THEN items[1].discountedPrice
                ELSE items[1].originalPrice) * items[1].quantity)
         + sumOver(Tail(items), field)

\* CartController.calculateCartTotals over the items of a cart document; an
\* item read back from the store has no originalPrice and no discountedPrice
calculateCartTotals(items) ==
    IF \E k \in 1..Len(items) : "originalPrice" \notin DOMAIN items[k]
    THEN [items |-> items, totalItems |-> sumOver(items, "quantity"),
          totalPrice |-> NaN, totalDiscount |-> NaN]
    ELSE LET totalOriginalPrice == sumOver(items, "originalPrice")
             totalDiscountedPrice == sumOver(items, "discountedPrice || originalPrice")
         IN [items |-> items, totalItems |-> sumOver(items, "quantity"),
             totalPrice |-> totalDiscountedPrice,
             totalDiscount |-> totalOriginalPrice - totalDiscountedPrice]

\* variant: the stock check looks at the requested quantity alone
addToCartFindRequestedOnly(r, userId, productId, quantity) ==
    /\ inflight[r] = Free
    /\ inflight' = [inflight EXCEPT ![r] =
          IF productId \notin DOMAIN ProductStore
          THEN [pc |-> "done", handler |-> "addToCart", userId |-> userId,
                productId |-> productId, quantity |-> quantity,
                status |-> 404, error |-> NotFound]
          ELSE LET cart == findOne(userId)
                   items == IF cart = 0 THEN <<>> ELSE carts[cart].items
                   existingItemIndex == findIndex(items, productId)
                   currentQty == IF existingItemIndex # -1
                                 THEN items[existingItemIndex].quantity ELSE 0
                   requestedQty == currentQty + quantity
               IN IF quantity > ProductStore[productId].stock
                  THEN [pc |-> "done", handler |-> "addToCart", userId |-> userId,
                        productId |-> productId, quantity |-> quantity,
                        status |-> 400, currentQty |-> currentQty,
                        maxAllowed |-> ProductStore[productId].stock - currentQty]
                  ELSE [pc |-> "save", handler |-> "addToCart", userId |-> userId,
                        productId |-> productId, quantity |-> quantity,
                        cart |-> cart,
                        version |-> IF cart = 0 THEN 0 ELSE carts[cart].version,
                        existingItemIndex |-> existingItemIndex,
                        currentQty |-> currentQty, requestedQty |-> requestedQty]]
    /\ UNCHANGED <<discounts, now, nextId, result, carts, session>>

\* addToCart up to the stock check: Product.findById, Cart.findOne, findIndex
addToCartFind(r, userId, productId, quantity) ==
    /\ inflight[r] = Free
    /\ inflight' = [inflight EXCEPT ![r] =
          IF productId \notin DOMAIN ProductStore
          THEN [pc |-> "done", handler |-> "addToCart", userId |-> userId,
                productId |-> productId, quantity |-> quantity,
                status |-> 404, error |-> NotFound]
          ELSE LET cart == findOne(userId)
                   items == IF cart = 0 THEN <<>> ELSE carts[cart].items
                   existingItemIndex == findIndex(items, productId)
                   currentQty == IF existingItemIndex # -1
                                 THEN items[existingItemIndex].quantity ELSE 0
                   requestedQty == currentQty + quantity
               IN IF requestedQty > ProductStore[productId].stock
                  THEN [pc |-> "done", handler |-> "addToCart", userId |-> userId,
                        productId |-> productId, quantity |-> quantity,
                        status |-> 400, currentQty |-> currentQty,
                        maxAllowed |-> ProductStore[productId].stock - currentQty]
                  ELSE [pc |-> "save", handler |-> "addToCart", userId |-> userId,
                        productId |-> productId, quantity |-> quantity,
                        cart |-> cart,
                        version |-> IF cart = 0 THEN 0 ELSE carts[cart].version,
                        existingItemIndex |-> existingItemIndex,
                        currentQty |-> currentQty, requestedQty |-> requestedQty]]
    /\ UNCHANGED <<discounts, now, nextId, result, carts, session>>

\* the answer of a request whose await threw: catch (error) -> 500
serverError(call, message) ==
    [pc |-> "done", handler |-> call.handler, userId |-> call.userId,
     status |-> 500, error |-> message]

\* addToCart from the stock check to cart.save(): calculateProductDiscount,
\* then the in-memory change and the save. The schema keeps product and
\* quantity only. A new cart is inserted under the unique index on user; a new
\* item is a $push that increments the version; a changed quantity is a $set
\* of items.<index>.quantity that requires the version read
addToCartSave(r) ==
    /\ inflight[r].pc = "save"
    /\ inflight[r].handler = "addToCart"
    /\ LET call == inflight[r]
           saved(cart) ==
               [pc |-> "reread", handler |-> "addToCart", userId |-> call.userId,
                productId |-> call.productId, quantity |-> call.quantity,
                cart |-> cart, existingItemIndex |-> call.existingItemIndex,
                currentQty |-> call.currentQty, requestedQty |-> call.requestedQty]
       IN \E list \in getApplicableDiscountsResults(call.productId, call.userId) :
            LET discountInfo == priceSingle(ProductStore[call.productId], headOrNull(list))
            IN IF call.existingItemIndex # -1
               THEN IF ~validateItem(call.requestedQty)
                    THEN /\ inflight' = [inflight EXCEPT ![r] =
                                            serverError(call, "ValidationError")]
                         /\ UNCHANGED carts
                    ELSE IF carts[call.cart].version # call.version
                    THEN /\ inflight' = [inflight EXCEPT ![r] =
                                            serverError(call, "VersionError")]
                         /\ UNCHANGED carts
                    ELSE /\ carts' = [carts EXCEPT
                                ![call.cart].items[call.existingItemIndex].quantity =
                                    call.requestedQty]
                         /\ inflight' = [inflight EXCEPT ![r] = saved(call.cart)]
               ELSE IF ~validateItem(call.quantity)
               THEN /\ inflight' = [inflight EXCEPT ![r] =
                                       serverError(call, "ValidationError")]
                    /\ UNCHANGED carts
               ELSE IF call.cart # 0
               THEN /\ carts' = [carts EXCEPT
                           ![call.cart].items =
                               Append(@, [_id |-> Len(@) + 1, product |-> call.productId,
                                          quantity |-> call.quantity]),
                           ![call.cart].version = @ + 1]
                    /\ inflight' = [inflight EXCEPT ![r] = saved(call.cart)]
               ELSE IF findOne(call.userId) # 0
               THEN /\ inflight' = [inflight EXCEPT ![r] =
                                       serverError(call, "E11000 duplicate key")]
                    /\ UNCHANGED carts
               ELSE /\ carts' = Append(carts,
                           [user |-> call.userId, version |-> 0,
                            items |-> <<[_id |-> 1, product |-> call.productId,
                                         quantity |-> call.quantity]>>])
                    /\ inflight' = [inflight EXCEPT ![r] = saved(Len(carts) + 1)]
    /\ UNCHANGED <<discounts, now, nextId, result, session>>

\* addToCart after the save: Cart.findById(cart._id), calculateCartTotals, 200
addToCartRespond(r) ==
    /\ inflight[r].pc = "reread"
    /\ inflight[r].handler = "addToCart"
    /\ LET call == inflight[r]
           updatedCart == carts[call.cart]
       IN inflight' = [inflight EXCEPT ![r] =
              [pc |-> "done", handler |-> "addToCart", userId |-> call.userId,
               productId |-> call.productId, quantity |-> call.quantity,
               currentQty |-> call.currentQty, status |-> 200,
               totals |-> calculateCartTotals(updatedCart.items)]]
    /\ UNCHANGED <<discounts, now, nextId, result, carts, session>>

\* updateCartItem up to the stock check: Cart.findOne, findIndex by item id,
\* Product.findById of the item's product
updateCartItemFind(r, userId, itemId, quantity) ==
    /\ inflight[r] = Free
    /\ inflight' = [inflight EXCEPT ![r] =
          LET cart == findOne(userId)
              itemIndex == IF cart = 0 THEN -1 ELSE findIndexById(carts[cart].items, itemId)
          IN IF cart = 0
             THEN [pc |-> "done", handler |-> "updateCartItem", userId |-> userId,
                   status |-> 404, error |-> "Cart not found"]
             ELSE IF itemIndex = -1
             THEN [pc |-> "done", handler |-> "updateCartItem", userId |-> userId,
                   status |-> 404, error |-> "Item not found in cart"]
             ELSE IF quantity > ProductStore[carts[cart].items[itemIndex].product].stock
             THEN [pc |-> "done", handler |-> "updateCartItem", userId |-> userId,
                   status |-> 400,
                   maxAllowed |-> ProductStore[carts[cart].items[itemIndex].product].stock]
             ELSE [pc |-> "save", handler |-> "updateCartItem", userId |-> userId,
                   cart |-> cart, version |-> carts[cart].version,
                   itemIndex |-> itemIndex, quantity |-> quantity]]
    /\ UNCHANGED <<discounts, now, nextId, result, carts, session>>

\* updateCartItem: cart.items[itemIndex].quantity = quantity; cart.save()
updateCartItemSave(r) ==
    /\ inflight[r].pc = "save"
    /\ inflight[r].handler = "updateCartItem"
    /\ LET call == inflight[r]
       IN IF ~validateItem(call.quantity)
          THEN /\ inflight' = [inflight EXCEPT ![r] = serverError(call, "ValidationError")]
               /\ UNCHANGED carts
          ELSE IF carts[call.cart].version # call.version
          THEN /\ inflight' = [inflight EXCEPT ![r] = serverError(call, "VersionError")]
               /\ UNCHANGED carts
          ELSE /\ carts' = [carts EXCEPT
                      ![call.cart].items[call.itemIndex].quantity = call.quantity]
               /\ inflight' = [inflight EXCEPT ![r] =
                      [pc |-> "reread", handler |-> "updateCartItem",
                       userId |-> call.userId, cart |-> call.cart]]
    /\ UNCHANGED <<discounts, now, nextId, result, session>>

\* updateCartItem after the save: Cart.findById(cart._id), calculateCartTotals, 200
updateCartItemRespond(r) ==
    /\ inflight[r].pc = "reread"
    /\ inflight[r].handler = "updateCartItem"
    /\ inflight' = [inflight EXCEPT ![r] =
          [pc |-> "done", handler |-> "updateCartItem", userId |-> inflight[r].userId,
           status |-> 200,
           totals |-> calculateCartTotals(carts[inflight[r].cart].items)]]
    /\ UNCHANGED <<discounts, now, nextId, result, carts, session>>

\* getCart up to the pricing loop: Cart.findOne; without a cart the answer is
\* the empty cart
getCartFind(r, userId) ==
    /\ inflight[r] = Free
    /\ inflight' = [inflight EXCEPT ![r] =
          IF findOne(userId) = 0
          THEN [pc |-> "done", handler |-> "getCart", userId |-> userId, status |-> 200,
                totals |-> [items |-> <<>>, totalItems |-> 0,
                            totalPrice |-> 0, totalDiscount |-> 0]]
          ELSE [pc |-> "price", handler |-> "getCart", userId |-> userId,
                cart |-> findOne(userId), items |-> carts[findOne(userId)].items]]
    /\ UNCHANGED <<discounts, now, nextId, result, carts, session>>

\* the in-memory items after the loop of getCart: every item carries the
\* originalPrice and discountedPrice calculateProductDiscount resolved for it
pricedItems(items, userId) ==
    LET pricings(k) ==
            { priceSingle(ProductStore[items[k].product], headOrNull(list)) :
                list \in getApplicableDiscountsResults(items[k].product, userId) }
    IN { [k \in 1..Len(items) |->
            [originalPrice |-> info[k].originalPrice,
             discountedPrice |-> info[k].discountedPrice] @@ items[k]] :
           info \in { f \in [1..Len(items) -> UNION { pricings(k) : k \in 1..Len(items) }] :
                        \A k \in 1..Len(items) : f[k] \in pricings(k) } }

\* getCart from the pricing loop on: calculateProductDiscount per item, the
\* prices set on the in-memory items, cart.save() (which changes no stored
\* field of the schema), calculateCartTotals over the in-memory items, 200
getCartRespond(r) ==
    /\ inflight[r].pc = "price"
    /\ inflight[r].handler = "getCart"
    /\ \E items \in pricedItems(inflight[r].items, inflight[r].userId) :
          inflight' = [inflight EXCEPT ![r] =
              [pc |-> "done", handler |-> "getCart", userId |-> inflight[r].userId,
               status |-> 200, totals |-> calculateCartTotals(items)]]
    /\ UNCHANGED <<discounts, now, nextId, result, carts, session>>

-----------------------------------------------------------------------------
(* Inputs *)

\* the scope payloads of the life cycle: one discount of each type
LifecycleScopes ==
    { [type |-> "general", products |-> {}, categories |-> {}, userGroup |-> Undefined],
      [type |-> "product", products |-> {"p1"}, categories |-> {}, userGroup |-> Undefined],
      [type |-> "category", products |-> {}, categories |-> {"shoes"}, userGroup |-> Undefined],
      [type |-> "userGroup", products |-> {}, categories |-> {}, userGroup |-> "vip"] }

\* request bodies of the discount life cycle: every window over the clock
LifecycleData ==
    { [percentage |-> pc, type |-> sc.type, products |-> sc.products,
       categories |-> sc.categories, userGroup |-> sc.userGroup,
       startDate |-> sd, endDate |-> ed, active |-> ac] :
        pc \in {10, 20}, sc \in LifecycleScopes,
        sd \in Instants, ed \in Instants, ac \in BOOLEAN }

LifecycleUpdates ==
    { ("startDate" :> t) : t \in Instants } \cup
    { ("endDate" :> t) : t \in Instants } \cup
    { ("active" :> b) : b \in BOOLEAN } \cup
    { ("percentage" :> 101) }

\* scope payloads: a general or product discount with any products list, a
\* category or userGroup discount with every combination of the three payloads
ScopeShapes ==
    { [type |-> ty, products |-> ps, categories |-> {}, userGroup |-> Undefined] :
        ty \in {"general", "product"}, ps \in {{}, {"p1"}} } \cup
    { [type |-> ty, products |-> ps, categories |-> cs, userGroup |-> ug] :
        ty \in {"category", "userGroup"}, ps \in {{}, {"p1"}},
        cs \in {{}, {"shoes"}}, ug \in {Undefined, "vip"} }

\* request bodies of every scope shape, valid over the whole clock
ScopeData ==
    { [percentage |-> pc, type |-> sc.type, products |-> sc.products,
       categories |-> sc.categories, userGroup |-> sc.userGroup,
       startDate |-> 0, endDate |-> MaxTime, active |-> TRUE] :
        pc \in {10, 20}, sc \in ScopeShapes }

\* scope payloads of the pricing runs: one general, one product and one
\* userGroup discount
PricingScopes ==
    { [type |-> "general", products |-> {}, categories |-> {}, userGroup |-> Undefined],
      [type |-> "product", products |-> {"p3"}, categories |-> {}, userGroup |-> Undefined],
      [type |-> "userGroup", products |-> {}, categories |-> {}, userGroup |-> "vip"] }

\* request bodies with the two ends and the middle of the percentage range
PricingData ==
    { [percentage |-> pc, type |-> sc.type, products |-> sc.products,
       categories |-> sc.categories, userGroup |-> sc.userGroup,
       startDate |-> 0, endDate |-> MaxTime, active |-> TRUE] :
        pc \in {0, 50, 100}, sc \in PricingScopes }

\* the products whose price has three decimals
PricingProductIds == {"p2", "p3"}

PricingUserIds == {NoUser, "u1"}

\* product lists with no, one, two and a repeated product
PricingBulkInputs ==
    { <<>>, <<ProductStore["p3"]>>,
      <<ProductStore["p2"], ProductStore["p3"]>>,
      <<ProductStore["p3"], ProductStore["p2"]>>,
      <<ProductStore["p3"], ProductStore["p3"]>> }

-----------------------------------------------------------------------------
(* Specifications *)

Init ==
    /\ discounts = <<>>
    /\ now = 0
    /\ nextId = 1
    /\ result = [op |-> "idle"]
    /\ carts = <<>>
    /\ inflight = [r \in Slots |-> Free]
    /\ session = NoSession

\* the discount life cycle, observed through the engine
Next ==
    \/ \E data \in LifecycleData : createDiscount(data)
    \/ \E id \in 1..MaxDiscounts, upd \in LifecycleUpdates : updateDiscount(id, upd)
    \/ \E id \in 1..MaxDiscounts : deleteDiscount(id)
    \/ tick
    \/ \E p \in ProductIdInputs, u \in UserIdInputs : getApplicableDiscounts(p, u)
    \/ \E p \in ProductIdInputs, u \in UserIdInputs : calculateBestDiscount(p, u)
    \/ \E p \in ProductIdInputs, u \in UserIdInputs : calculateProductDiscount(p, u)
    \/ \E ps \in BulkInputs, u \in UserIdInputs : applyBulkDiscounts(ps, u)
    \/ respond

Spec == Init /\ [][Next]_vars

\* the engine over discounts of every scope shape
NextEngine ==
    \/ \E data \in ScopeData : createDiscount(data)
    \/ \E p \in ProductIdInputs, u \in UserIdInputs : getApplicableDiscounts(p, u)
    \/ \E p \in ProductIdInputs, u \in UserIdInputs : calculateBestDiscount(p, u)
    \/ \E p \in ProductIdInputs, u \in UserIdInputs : calculateProductDiscount(p, u)
    \/ \E ps \in BulkInputs, u \in UserIdInputs : applyBulkDiscounts(ps, u)
    \/ respond

SpecEngine == Init /\ [][NextEngine]_vars

\* pricing of three-decimal prices, with store calls that may reject
\* request bodies of the management routes: a general discount, in or out of
\* its window
AdminData ==
    { d \in LifecycleData : d.type = "general" /\ d.percentage = 10 /\ d.startDate = 0 }

\* the management routes, called with every kind of token
NextAdmin ==
    \/ \E route \in DiscountRoutes, token \in TokenInputs : verifyToken(route, token)
    \/ adminMiddleware
    \/ \E data \in AdminData : DiscountController_createDiscount(data)
    \/ \E id \in 1..MaxDiscounts, u \in LifecycleUpdates :
          DiscountController_updateDiscount(id, u)
    \/ \E id \in 1..MaxDiscounts : DiscountController_deleteDiscount(id)
    \/ respond

SpecAdmin == Init /\ [][NextAdmin]_vars

\* scheduled discounts: each is created before its startDate and never touched
\* again, while the clock advances and the engine is called
ScheduledData ==
    { d \in LifecycleData : d.active /\ d.startDate > now }

NextSchedule ==
    \/ \E data \in ScheduledData : createDiscount(data)
    \/ tick
    \/ \E p \in ProductIdInputs, u \in UserIdInputs : calculateProductDiscount(p, u)
    \/ \E ps \in BulkInputs, u \in UserIdInputs : applyBulkDiscounts(ps, u)
    \/ respond

SpecSchedule == Init /\ [][NextSchedule]_vars

\* scope payloads around two products of one category: a product discount, a
\* category discount, a category discount that also carries a products list,
\* and a userGroup discount
SnapshotScopes ==
    { [type |-> "product", products |-> {"p2"}, categories |-> {}, userGroup |-> Undefined],
      [type |-> "category", products |-> {}, categories |-> {"hats"}, userGroup |-> Undefined],
      [type |-> "category", products |-> {"p3"}, categories |-> {}, userGroup |-> Undefined],
      [type |-> "userGroup", products |-> {}, categories |-> {}, userGroup |-> "vip"] }

SnapshotData ==
    { [percentage |-> pc, type |-> sc.type, products |-> sc.products,
       categories |-> sc.categories, userGroup |-> sc.userGroup,
       startDate |-> 0, endDate |-> ed, active |-> TRUE] :
        pc \in {50, 100}, sc \in SnapshotScopes, ed \in Instants }

\* the batch of a listing: two products of the category "hats"
SnapshotBulkInputs ==
    { <<ProductStore["p2"], ProductStore["p3"]>> }

\* the updates that take a discount out of a call's window or disable it
SnapshotUpdates ==
    { ("startDate" :> 1), ("endDate" :> 0), ("active" :> FALSE) }

\* one listing request races the discount mutations and the clock
NextSnapshot ==
    \/ \E data \in SnapshotData : createDiscount(data)
    \/ \E id \in 1..MaxDiscounts, u \in SnapshotUpdates : updateDiscount(id, u)
    \/ \E id \in 1..MaxDiscounts : deleteDiscount(id)
    \/ tick
    \/ \E ps \in SnapshotBulkInputs, u \in PricingUserIds : bulkFind(1, ps, u)
    \/ bulkFindUserGroup(1)
    \/ finish(1)
    \/ respond

SpecSnapshot == Init /\ [][NextSnapshot]_vars

\* the authenticated users of the cart routes
CartUserIds == {"u1"}

\* "p9" is an id no product has
CartProductIds == {"p1", "p9"}

\* req.body.quantity
QuantityInputs == {0, 1, 2}

\* addToCart requests of one user, handled concurrently
NextCart ==
    \/ \E r \in Slots, u \in CartUserIds, p \in CartProductIds, q \in QuantityInputs :
          addToCartFind(r, u, p, q)
    \/ \E r \in Slots : addToCartSave(r)
    \/ \E r \in Slots : addToCartRespond(r)
    \/ \E r \in Slots : finish(r)

SpecCart == Init /\ [][NextCart]_vars

\* request bodies of the cart pricing: a general discount of 50 or 100 percent
CartPricingData ==
    { [percentage |-> pc, type |-> "general", products |-> {}, categories |-> {},
       userGroup |-> Undefined, startDate |-> 0, endDate |-> ed, active |-> TRUE] :
        pc \in {50, 100}, ed \in Instants }

\* the cart requests of one user, one at a time, while discounts are created
\* and expire
NextCartPricing ==
    \/ \E data \in CartPricingData : createDiscount(data)
    \/ tick
    \/ respond
    \/ \E u \in CartUserIds, q \in QuantityInputs : addToCartFind(1, u, "p1", q)
    \/ addToCartSave(1)
    \/ addToCartRespond(1)
    \/ \E u \in CartUserIds, id \in 1..2, q \in QuantityInputs :
          updateCartItemFind(1, u, id, q)
    \/ updateCartItemSave(1)
    \/ updateCartItemRespond(1)
    \/ \E u \in CartUserIds : getCartFind(1, u)
    \/ getCartRespond(1)
    \/ finish(1)

SpecCartPricing == Init /\ [][NextCartPricing]_vars

NextPricing ==
    \/ \E data \in PricingData : createDiscount(data)
    \/ \E p \in PricingProductIds, u \in PricingUserIds : calculateProductDiscount(p, u)
    \/ \E ps \in PricingBulkInputs, u \in PricingUserIds, f \in StoreFaults :
          applyBulkDiscountsRun(ps, u, f)
    \/ respond

SpecPricing == Init /\ [][NextPricing]_vars


-----------------------------------------------------------------------------
(* Vocabulary of the properties *)

Range(list) == { list[k] : k \in 1..Len(list) }

Stored == Range(discounts)

InWindow(d, t) == d.startDate <= t /\ d.endDate >= t

PricingFields ==
    {"originalPrice", "discountedPrice", "hasDiscount", "discountPercentage",
     "savedAmount", "discountType", "discount"}

PricingOf(r) == [f \in (DOMAIN r) \cap PricingFields |-> r[f]]

SingleOps == {"getApplicableDiscounts", "calculateBestDiscount", "calculateProductDiscount"}

\* the last call was an engine call that returned a value
EngineAnswered ==
    /\ result.op \in SingleOps \cup {"applyBulkDiscounts"}
    /\ result.error = ""

\* <<product, discount>> for every discount the last call selected as best
Selected ==
    IF ~EngineAnswered THEN {}
    ELSE IF result.op = "calculateBestDiscount"
    THEN IF result.out = Null THEN {}
         ELSE {<<ProductStore[result.productId], result.out>>}
    ELSE IF result.op = "calculateProductDiscount"
    THEN IF result.out.hasDiscount
         THEN {<<ProductStore[result.productId], result.out.discount>>}
         ELSE {}
    ELSE IF result.op = "applyBulkDiscounts"
    THEN { <<result.products[k], result.out[k].discount>> :
             k \in { j \in 1..Len(result.out) : result.out[j].hasDiscount } }
    ELSE {}

\* <<product, discount>> for every discount the last call listed as applicable
Listed ==
    IF EngineAnswered /\ result.op = "getApplicableDiscounts"
    THEN { <<ProductStore[result.productId], d>> : d \in Range(result.out) }
    ELSE {}

\* the scope of d covers the product (and the user's group), as the data model states it
ScopeCovers(d, product, userId) ==
    \/ d.type = "general"
    \/ (d.type = "category" /\ product.category \in d.categories)
    \/ (d.type = "product" /\ product._id \in d.products)
    \/ /\ d.type = "userGroup"
       /\ userId \in DOMAIN UserStore
       /\ UserStore[userId].userGroup # ""
       /\ UserStore[userId].userGroup = d.userGroup

\* d is applicable to the product and user at the current instant
Applicable(d, product, userId) ==
    /\ d.active
    /\ InWindow(d, now)
    /\ ScopeCovers(d, product, userId)

\* d is a candidate of the call that produced the result, for this product
Candidate(d, product) ==
    IF result.op = "applyBulkDiscounts"
    THEN /\ \/ bulkPoolQuery(d, result.products)
            \/ bulkUserGroupQuery(d, result.userId)
         /\ bulkFilter(d, product, result.userId)
    ELSE getApplicableDiscountsQuery(d, product._id, result.userId)

\* <<product, pricing>> for every pricing the last call returned
Priced ==
    IF ~EngineAnswered THEN {}
    ELSE IF result.op = "calculateProductDiscount"
    THEN {<<ProductStore[result.productId], result.out>>}
    ELSE IF result.op = "applyBulkDiscounts"
    THEN { <<result.products[k], result.out[k]>> : k \in 1..Len(result.out) }
    ELSE {}

\* round2 of an amount of thousandths: to the nearest cent, a half away from zero
Round2(v) ==
    IF v < 0 THEN 0 - (((0 - v) + 5) \div 10) * 10 ELSE ((v + 5) \div 10) * 10

\* the discounts applicable to the product for the user of the last call
ApplicableTo(product) ==
    { d \in Stored : Applicable(d, product, result.userId) }

\* every pricing calculateProductDiscount may return in the current state
SinglePricings(productId, userId) ==
    { priceSingle(ProductStore[productId], headOrNull(list)) :
        list \in getApplicableDiscountsResults(productId, userId) }

\* every list applyBulkDiscounts may return in the current state
BulkPricings(products, userId) ==
    { bulkMap(pool, products, userId) : pool \in combinedDiscounts(products, userId) }

\* the selected percentage of a pricing, 0 when no discount was selected
PercentageOf(pricing) ==
    IF pricing.hasDiscount THEN pricing.discountPercentage ELSE 0

\* pricing b is at least as good for the customer as pricing a
NotWorse(a, b) ==
    /\ PercentageOf(b) >= PercentageOf(a)
    /\ b.discountedPrice <= a.discountedPrice
    /\ a.hasDiscount => b.hasDiscount

\* the quantity of the product in the user's stored cart, 0 when it has none
StoredQuantity(userId, productId) ==
    LET cart == findOne(userId)
        k == IF cart = 0 THEN -1 ELSE findIndex(carts[cart].items, productId)
    IN IF k = -1 THEN 0 ELSE carts[cart].items[k].quantity

CartHandlers == {"addToCart", "updateCartItem", "getCart"}

\* the sum of quantity over the items
RECURSIVE SumQuantity(_)
SumQuantity(items) ==
    IF Len(items) = 0 THEN 0 ELSE items[1].quantity + SumQuantity(Tail(items))

\* the sum of discountedPrice * quantity over the items
RECURSIVE SumDiscounted(_)
SumDiscounted(items) ==
    IF Len(items) = 0 THEN 0
    ELSE items[1].discountedPrice * items[1].quantity + SumDiscounted(Tail(items))

\* the sum of (originalPrice - discountedPrice) * quantity over the items
RECURSIVE SumSaved(_)
SumSaved(items) ==
    IF Len(items) = 0 THEN 0
    ELSE (items[1].originalPrice - items[1].discountedPrice) * items[1].quantity
         + SumSaved(Tail(items))

-----------------------------------------------------------------------------
(* Properties *)

\* C1: for a single product P and any user U, the pricing fields of
\* applyBulkDiscounts([P], U)[0] are those calculateProductDiscount(P.id, U)
\* returns over the same discount store at the same instant.
C1_BulkEqualsSingle ==
    (result.op = "applyBulkDiscounts" /\ Len(result.products) = 1) =>
        \E list \in getApplicableDiscountsResults(result.products[1]._id, result.userId) :
            PricingOf(result.out[1]) = priceSingle(result.products[1], headOrNull(list))

\* C2: a discount of type category is never selected for, or listed as applicable
\* to, a product whose category is not in the discount's categories list.
C2_CategoryScope ==
    \A pd \in Selected \cup Listed :
        pd[2].type = "category" => pd[1].category \in pd[2].categories

\* C3: when no user id is supplied, no discount of type userGroup is selected
\* for, or listed as applicable to, any product.
C3_NoUserNoUserGroupDiscount ==
    (EngineAnswered /\ result.userId = NoUser) =>
        \A pd \in Selected \cup Listed : pd[2].type # "userGroup"

\* C4: a selected discount is one stored discount whose percentage is greater
\* than or equal to that of every discount applicable to the product and user,
\* and of every candidate the call considered for the product.
C4_BestIsMaximal ==
    \A pd \in Selected :
        /\ pd[2] \in Stored
        /\ \A d \in Stored :
              (Applicable(d, pd[1], result.userId) \/ Candidate(d, pd[1]))
                  => pd[2].percentage >= d.percentage

\* C4 witness: a bulk call selected a discount although a second applicable
\* discount with a strictly lower percentage was in the store.
C4_Witness ==
    /\ result.op = "applyBulkDiscounts"
    /\ \E pd \in Selected : \E d \in Stored :
          /\ Applicable(d, pd[1], result.userId)
          /\ d.percentage < pd[2].percentage

\* C5: a discount whose window does not contain the current instant is never
\* listed by getApplicableDiscounts and never selected, whatever its active flag.
C5_WindowExclusion ==
    \A pd \in Selected \cup Listed : InWindow(pd[2], now)

\* C5 witness: a pricing call answered while the store held a discount that
\* covers the product, is flagged active and is outside its window.
C5_Witness ==
    /\ EngineAnswered
    /\ result.op = "calculateProductDiscount"
    /\ \E d \in Stored :
          /\ d.active
          /\ ~InWindow(d, now)
          /\ ScopeCovers(d, ProductStore[result.productId], result.userId)

\* C6: every stored discount with active = true has startDate <= now <= endDate.
C6_ActiveImpliesInWindow ==
    \A d \in Stored : d.active => InWindow(d, now)

\* C7: after createDiscount and after updateDiscount the stored active flag of
\* the persisted discount equals (startDate <= now <= endDate).
C7_ActiveRecomputedOnPersist ==
    (/\ result.op \in {"createDiscount", "updateDiscount"}
     /\ result.error = ""
     /\ result.out # Null) =>
        /\ result.out \in Stored
        /\ result.out.active = InWindow(result.out, now)

\* C8: for an existing product, every stored discount that is active, in its
\* window and general, category-scoped to the product's category or
\* product-scoped to the product is in the list getApplicableDiscounts returns,
\* for every user id.
C8_ApplicableComplete ==
    (EngineAnswered /\ result.op = "getApplicableDiscounts") =>
        \A d \in Stored :
            (/\ d.active
             /\ InWindow(d, now)
             /\ \/ d.type = "general"
                \/ (d.type = "category" /\
                      ProductStore[result.productId].category \in d.categories)
                \/ (d.type = "product" /\ result.productId \in d.products))
                => d \in Range(result.out)

\* C8 witness: a call for a user with a group returned a general discount next
\* to a discount of the user's group.
C8_Witness ==
    /\ EngineAnswered
    /\ result.op = "getApplicableDiscounts"
    /\ result.userId = "u1"
    /\ \E d, e \in Range(result.out) : d.type = "general" /\ e.type = "userGroup"

\* C9: getApplicableDiscounts lists a discount of type userGroup only if the
\* user id resolves to a user whose non-empty group equals the discount's group.
C9_SingleUserGroupMatch ==
    (EngineAnswered /\ result.op = "getApplicableDiscounts") =>
        \A d \in Range(result.out) :
            d.type = "userGroup" =>
                /\ result.userId \in DOMAIN UserStore
                /\ UserStore[result.userId].userGroup # ""
                /\ UserStore[result.userId].userGroup = d.userGroup

\* C10: every discount of type userGroup that applyBulkDiscounts selects has the
\* group of the user the call was made for.
C10_BulkUserGroupMatch ==
    result.op = "applyBulkDiscounts" =>
        \A pd \in Selected :
            pd[2].type = "userGroup" =>
                /\ result.userId \in DOMAIN UserStore
                /\ UserStore[result.userId].userGroup = pd[2].userGroup

\* C11: every discounted price returned by calculateProductDiscount and
\* applyBulkDiscounts equals round2(price * (100 - percentage) / 100) and lies
\* between 0 and the price, also for a price with more than two decimals.
C11_PriceFormulaAndBounds ==
    \A e \in Priced :
        e[2].hasDiscount =>
            /\ e[2].discountedPrice =
                   Round2((e[1].price * (100 - e[2].discountPercentage)) \div 100)
            /\ 0 <= e[2].discountedPrice
            /\ e[2].discountedPrice <= e[1].price

\* C12: whenever hasDiscount is true, savedAmount is round2(originalPrice -
\* discountedPrice), is that difference itself when the price has at most two
\* decimals, and is never negative.
C12_SavedAmount ==
    \A e \in Priced :
        e[2].hasDiscount =>
            /\ e[2].savedAmount = Round2(e[2].originalPrice - e[2].discountedPrice)
            /\ e[2].originalPrice % 10 = 0 =>
                   e[2].savedAmount = e[2].originalPrice - e[2].discountedPrice
            /\ e[2].savedAmount >= 0

\* C13: when every discount applicable to the product has percentage 0 (and
\* there is one), the pricing has hasDiscount = true, discountPercentage = 0,
\* discountedPrice = originalPrice and savedAmount = 0.
C13_ZeroPercentIsDiscount ==
    \A e \in Priced :
        (ApplicableTo(e[1]) # {} /\ \A d \in ApplicableTo(e[1]) : d.percentage = 0) =>
            /\ e[2].hasDiscount
            /\ e[2].discountPercentage = 0
            /\ e[2].discountedPrice = e[2].originalPrice
            /\ e[2].savedAmount = 0

\* C14: calculateProductDiscount and applyBulkDiscounts return hasDiscount =
\* false exactly when no discount is applicable to the product and user at that
\* instant, and then originalPrice = discountedPrice = product.price.
C14_NoDiscountShape ==
    \A e \in Priced :
        /\ (e[2].hasDiscount = FALSE) <=> (ApplicableTo(e[1]) = {})
        /\ e[2].hasDiscount = FALSE =>
               /\ e[2].originalPrice = e[1].price
               /\ e[2].discountedPrice = e[1].price

\* C15: a second calculateProductDiscount(productId, userId), made with no
\* discount created, updated or deleted since the first, returns the result the
\* first returned: in the state a call returned in, every result the same call
\* can return is the one it returned.
C15_Idempotence ==
    (EngineAnswered /\ result.op = "calculateProductDiscount") =>
        \A list \in getApplicableDiscountsResults(result.productId, result.userId) :
            priceSingle(ProductStore[result.productId], headOrNull(list)) = result.out

\* C16: over an unchanged discount set every call selects the same discount,
\* also when several matching discounts share the maximum percentage: whatever
\* calculateBestDiscount or applyBulkDiscounts can select in the state a call
\* returned in is what that call selected.
C16_TieBreakDeterminism ==
    /\ (EngineAnswered /\ result.op = "calculateBestDiscount") =>
           \A list \in getApplicableDiscountsResults(result.productId, result.userId) :
               headOrNull(list) = result.out
    /\ (EngineAnswered /\ result.op = "applyBulkDiscounts") =>
           \A pool \in combinedDiscounts(result.products, result.userId) :
               \A k \in 1..Len(result.products) :
                   bulkBest(productDiscounts(pool, result.products[k], result.userId))
                       = (IF result.out[k].hasDiscount THEN result.out[k].discount ELSE Null)

\* C17: one applyBulkDiscounts call issues exactly one scope-matching discount
\* query and at most one user-group discount query, whatever the number of
\* products: at most two discount queries in all.
C17_BulkQueryCount ==
    result.op = "applyBulkDiscounts" =>
        LET issued(q) == { k \in 1..Len(result.calls) : result.calls[k] = q }
        IN /\ Cardinality(issued("Discount.find scope")) = 1
           /\ Cardinality(issued("Discount.find userGroup")) <= 1
           /\ Cardinality(issued("Discount.find scope") \cup
                          issued("Discount.find userGroup")) <= 2

\* C17 witness: a call over two products for a user with a group returned
\* after both discount queries.
C17_Witness ==
    /\ result.op = "applyBulkDiscounts"
    /\ result.error = ""
    /\ Len(result.products) = 2
    /\ \E k \in 1..Len(result.calls) : result.calls[k] = "Discount.find userGroup"

\* C18: applyBulkDiscounts returns a list as long as its input whose i-th
\* element carries the _id and every field of the i-th input product, priced
\* from that product's price; also for the empty list and a repeated product.
C18_BulkOutputOrder ==
    (result.op = "applyBulkDiscounts" /\ result.error = "") =>
        /\ Len(result.out) = Len(result.products)
        /\ \A k \in 1..Len(result.products) :
              /\ result.out[k]._id = result.products[k]._id
              /\ \A f \in DOMAIN result.products[k] :
                    result.out[k][f] = result.products[k][f]
              /\ result.out[k].originalPrice = result.products[k].price
              /\ result.out[k].hasDiscount =>
                    result.out[k].discountedPrice =
                        discountedPriceOf(result.products[k].price,
                                          result.out[k].discountPercentage)

\* C18 witness: a call over two different products returned a discount for
\* the second product only.
C18_Witness ==
    /\ result.op = "applyBulkDiscounts"
    /\ result.error = ""
    /\ Len(result.products) = 2
    /\ result.products[1]._id # result.products[2]._id
    /\ ~result.out[1].hasDiscount
    /\ result.out[2].hasDiscount

\* C19: when resolving the user or fetching the user-group discounts fails
\* after the scope-matching query succeeded, applyBulkDiscounts still returns
\* one priced entry per input product, priced from the scope-matching
\* discounts alone.
C19_BulkGracefulDegradation ==
    (/\ result.op = "applyBulkDiscounts"
     /\ "rejected" \in DOMAIN result
     /\ result.rejected \in {"user", "userGroup"}) =>
        /\ result.error = ""
        /\ "out" \in DOMAIN result
        /\ \E allDiscounts \in find({ i \in 1..Len(discounts) :
                                        bulkPoolQuery(discounts[i], result.products) }) :
              result.out = bulkMap(allDiscounts, result.products, result.userId)

\* C20: getApplicableDiscounts, calculateBestDiscount and
\* calculateProductDiscount fail with 'Product not found' and return nothing
\* when the product id resolves to no product, and return a value without that
\* error when the product exists.
C20_SingleProductNotFound ==
    result.op \in SingleOps =>
        IF result.productId \in DOMAIN ProductStore
        THEN result.error = "" /\ "out" \in DOMAIN result
        ELSE result.error = NotFound /\ "out" \notin DOMAIN result

\* C20 witness: a call for an id no product has failed although the store
\* held a general discount.
C20_Witness ==
    /\ result.op \in SingleOps
    /\ result.productId \notin DOMAIN ProductStore
    /\ result.error = NotFound
    /\ \E d \in Stored : d.type = "general" /\ d.active /\ InWindow(d, now)

\* C21: a call of getApplicableDiscounts, calculateBestDiscount,
\* calculateProductDiscount or applyBulkDiscounts leaves the Discount store (and
\* the id counter and the Cart store) as it was; the pricing fields exist only in
\* the returned value. The Product and User collections are read-only data here.
C21_ReadOnlyEngine ==
    [][(result.op = "idle" /\ result'.op \in SingleOps \cup {"applyBulkDiscounts"}) =>
          /\ discounts' = discounts
          /\ nextId' = nextId
          /\ carts' = carts
          /\ \A k \in DOMAIN discounts' : (DOMAIN discounts'[k]) \cap PricingFields = {}]_vars

\* an engine call priced a product with a discount whose stored flag disagrees
\* with its window, and the flag is still what it was
C21_Witness ==
    /\ \E pr \in Priced : pr[2].hasDiscount
    /\ \E d \in Stored : d.active # InWindow(d, now)

\* C22: every change of the Discount store happens while a request is being
\* handled whose authenticated user has userGroup 'admin'; a request answered
\* 401 or 403 leaves the Discount store as it was.
C22_AdminOnlyMutation ==
    [][/\ (discounts' # discounts) =>
              (session.stage = "admin" /\ session.user.userGroup = "admin")
       /\ (result.op = "idle" /\ result'.op \in DiscountRoutes) =>
              (result'.status \in {401, 403} /\ discounts' = discounts)]_vars

\* a non-admin was answered 403 while the store, filled by an admin, holds a discount
C22_Witness ==
    /\ result.op \in DiscountRoutes
    /\ result.status = 403
    /\ session.stage = "verified"
    /\ session.user.userGroup # "admin"
    /\ Len(discounts) > 0

\* C23: a discount the admin disabled (active = false in the body of
\* createDiscount, or set by updateDiscount) is stored with active = false, and
\* no engine call selects a stored discount whose active flag is false.
C23_AdminDisableRespected ==
    [][/\ \A data \in LifecycleData :
              (createDiscount(data) /\ validate(data) /\ ~data.active) =>
                  ~result'.out.active
       /\ \A id \in 1..MaxDiscounts, u \in LifecycleUpdates :
              (/\ updateDiscount(id, u)
               /\ "active" \in DOMAIN u
               /\ ~u["active"]
               /\ result'.error = ""
               /\ result'.out # Null) => ~result'.out.active
       /\ \A pr \in Selected : pr[2].active]_vars

\* C25: a discount created before its startDate and never updated is taken into
\* account at every later instant inside its window: a product it covers is
\* priced with a discount of at least its percentage.
C25_ScheduledTakesEffect ==
    \A pr \in Priced : \A d \in Stored :
        (InWindow(d, now) /\ ScopeCovers(d, pr[1], result.userId)) =>
            (pr[2].hasDiscount /\ pr[2].discountPercentage >= d.percentage)

\* C30: for a fixed product, user and instant, a createDiscount that adds a
\* discount to the store never lowers the selected percentage, never raises
\* discountedPrice and never turns hasDiscount from true to false, in
\* calculateProductDiscount and in applyBulkDiscounts.
C30_Monotonicity ==
    [][(result'.op = "createDiscount" /\ Len(discounts') = Len(discounts) + 1) =>
          \A u \in UserIdInputs :
              /\ \A p \in DOMAIN ProductStore :
                     \A a \in SinglePricings(p, u) : \A b \in SinglePricings(p, u)' :
                         NotWorse(a, b)
              /\ \A p \in DOMAIN ProductStore :
                     \A a \in BulkPricings(<<ProductStore[p]>>, u) :
                         \A b \in BulkPricings(<<ProductStore[p]>>, u)' :
                             NotWorse(a[1], b[1])]_vars

\* C29: a finished applyBulkDiscounts call selected only discounts that were in
\* their window at the instant the call captured, and any two products of its
\* batch that have the same category and are listed in no product-type discount
\* (of the pool the call fetched or of the store) got the same selected
\* percentage, whatever create, update, delete or clock step ran between the
\* call's queries.
C29_BulkSnapshotConsistency ==
    \A r \in Slots :
        (inflight[r].pc = "done" /\ inflight[r].handler = "applyBulkDiscounts") =>
            LET call == inflight[r]
                Unlisted(product) ==
                    \A d \in Range(call.pool) \cup Stored :
                        d.type = "product" => product._id \notin d.products
                SelectedOf(k) ==
                    IF call.out[k].hasDiscount THEN call.out[k].discountPercentage ELSE -1
            IN /\ \A k \in 1..Len(call.out) :
                      call.out[k].hasDiscount => InWindow(call.out[k].discount, call.now)
               /\ \A k1, k2 \in 1..Len(call.out) :
                      (/\ call.products[k1].category = call.products[k2].category
                       /\ Unlisted(call.products[k1])
                       /\ Unlisted(call.products[k2])) =>
                          SelectedOf(k1) = SelectedOf(k2)

\* a finished call priced two unlisted products of one category with a discount
\* that is no longer in the store as the call saw it, at an instant that has passed
C29_Witness ==
    \E r \in Slots :
        /\ inflight[r].pc = "done"
        /\ inflight[r].handler = "applyBulkDiscounts"
        /\ Len(inflight[r].out) = 2
        /\ inflight[r].products[1]._id # inflight[r].products[2]._id
        /\ \A k \in 1..2 :
              /\ inflight[r].out[k].hasDiscount
              /\ inflight[r].out[k].discount \notin Stored
              /\ \A d \in Range(inflight[r].pool) \cup Stored :
                    d.type = "product" => inflight[r].products[k]._id \notin d.products
        /\ inflight[r].now < now

C28_NoLostCartUpdates ==
    [][/\ \A r \in Slots :
              (/\ inflight[r].pc = "save"
               /\ inflight[r].handler = "addToCart"
               /\ inflight'[r].pc = "reread") =>
                  StoredQuantity(inflight[r].userId, inflight[r].productId)' =
                      StoredQuantity(inflight[r].userId, inflight[r].productId)
                          + inflight[r].quantity
       /\ \A i, j \in 1..Len(carts) : carts[i].user = carts[j].user => i = j]_vars

\* C24: when addToCart, updateCartItem or getCart answers 200, its totals are
\* those of the stored items priced by calculateProductDiscount over the
\* discount store and the clock as they are when the answer is produced.
C24_CartPricingRecomputed ==
    [][\A r \in Slots :
          (/\ inflight[r].pc # "done"
           /\ inflight'[r].pc = "done"
           /\ inflight'[r].handler \in CartHandlers
           /\ inflight'[r].status = 200) =>
              LET cart == findOne(inflight'[r].userId)
                  items == IF cart = 0 THEN <<>> ELSE carts[cart].items
              IN \E priced \in pricedItems(items, inflight'[r].userId) :
                    /\ inflight'[r].totals.totalPrice =
                           calculateCartTotals(priced).totalPrice
                    /\ inflight'[r].totals.totalDiscount =
                           calculateCartTotals(priced).totalDiscount]_vars

\* C27: the totals of a cart whose items carry their prices are
\* totalItems = sum of quantity, totalPrice = sum of discountedPrice * quantity
\* and totalDiscount = sum of (originalPrice - discountedPrice) * quantity,
\* for every percentage from 0 to 100.
C27_CartTotals ==
    \A r \in Slots :
        (/\ inflight[r].pc = "done"
         /\ inflight[r].handler \in CartHandlers
         /\ inflight[r].status = 200
         /\ \A k \in 1..Len(inflight[r].totals.items) :
               "discountedPrice" \in DOMAIN inflight[r].totals.items[k]) =>
            LET totals == inflight[r].totals
            IN /\ totals.totalItems = SumQuantity(totals.items)
               /\ totals.totalPrice = SumDiscounted(totals.items)
               /\ totals.totalDiscount = SumSaved(totals.items)

=============================================================================
